---- MODULE Spec2Model ----
(***************************************************************************)
(* Control layer of the smart-home energy management system               *)
(* (src/control.py): the AC and lighting finite state machines and the     *)
(* per-room aggregator RoomController.                                     *)
(*                                                                         *)
(* Temperatures are Python floats in the source.  They are modelled as     *)
(* integers counting tenths of a degree Celsius, so 28.0 is 280, 24.1 is   *)
(* 241 and 23.9 is 239; every comparison of the source keeps its operator. *)
(* Python's None is the string "None".                                     *)
(***************************************************************************)
EXTENDS Integers, Sequences, FiniteSets, TLC

(* ---------------------------------------------------------------------- *)
(* Program constants                                                       *)
(* ---------------------------------------------------------------------- *)

\* `temp >= 28` (control.py lines 29 and 31), in tenths of a degree.
CoolOnThreshold == 280

\* `temp < 24` (control.py line 34), in tenths of a degree.
CoolOffThreshold == 240

\* `light_level < 300` (control.py line 49).
LightThreshold == 300

\* self.current_temp = 20.0 (control.py line 66), in tenths of a degree.
DefaultTemp == 200

\* self.current_light_level = 500 (control.py line 68).
DefaultLightLevel == 500

\* self.is_occupied = False (control.py line 67).
DefaultOccupied == FALSE

\* Python's None.
None == "None"

(* ---------------------------------------------------------------------- *)
(* Bounds and input sets                                                   *)
(* ---------------------------------------------------------------------- *)

\* The counter of operations performed on a room since its construction
\* stops counting at MaxOps.
MaxOps == 5

\* The sequences of update_state calls that SpecAC makes on one
\* ACController have at most MaxCalls calls.
MaxCalls == 4

\* The temperatures of those calls, in tenths of a degree: 30, 26, 24.1 and
\* 23.9 and the two thresholds.
SeqTemps == {239, 240, 241, 260, 280, 300}

\* The rooms that exist: the demo driver builds one (control.py line 98).
Rooms == {"Living Room"}

\* Temperatures delivered by the sensor source, in tenths of a degree:
\* both thresholds, their neighbours, and values inside and above the band.
TempInputs == {239, 240, 241, 260, 279, 280, 290, 300}

\* Light levels delivered by the sensor source.
LightInputs == {50, 100, 299, 300}

ACStates == {"OFF", "STANDBY", "COOLING"}

LightStates == {"OFF", "ON"}

\* Well-formed readings: the tag and the payload field the tag calls for.
TemperatureReadings == {[sensor_type |-> "temperature", value |-> t] : t \in TempInputs}

OccupancyReadings == {[sensor_type |-> "pir", occupied |-> b] : b \in BOOLEAN}

LightLevelReadings == {[sensor_type |-> "ldr", value |-> l] : l \in LightInputs}

WellFormedReadings == TemperatureReadings \cup OccupancyReadings \cup LightLevelReadings

\* Readings whose tag is not one of the three, or that carry no tag at all.
UnknownTagReadings ==
    { [sensor_type |-> "humidity", value |-> 290],
      [sensor_type |-> "motion", occupied |-> TRUE],
      [value |-> 50] }

\* Readings with a recognised tag and without the payload field it calls for.
MissingFieldReadings ==
    { [sensor_type |-> "temperature"],
      [sensor_type |-> "pir", value |-> 50],
      [sensor_type |-> "ldr", occupied |-> TRUE] }

Readings == WellFormedReadings \cup UnknownTagReadings \cup MissingFieldReadings

(* ---------------------------------------------------------------------- *)
(* ACController                                                            *)
(* ---------------------------------------------------------------------- *)

\* ACController.__init__: self.state = "OFF".
ACInit == "OFF"

\* A variant that tests the hysteresis branch before the occupancy test.
ACUpdateState_HysteresisFirst(state, occupied, temp) ==
    IF state = "COOLING" /\ temp >= CoolOffThreshold THEN state
    ELSE IF ~occupied THEN "OFF"
    ELSE IF state = "COOLING" THEN "STANDBY"
    ELSE IF temp >= CoolOnThreshold THEN "COOLING" ELSE "STANDBY"

\* A variant whose OFF branch always goes to STANDBY first.
ACUpdateState_OffToStandbyOnly(state, occupied, temp) ==
    IF ~occupied THEN "OFF"
    ELSE IF state = "OFF" THEN "STANDBY"
    ELSE IF state = "STANDBY" THEN (IF temp >= CoolOnThreshold THEN "COOLING" ELSE state)
    ELSE IF state = "COOLING" THEN (IF temp < CoolOffThreshold THEN "STANDBY" ELSE state)
    ELSE state

\* A variant without hysteresis: cooling stops below the upper threshold.
ACUpdateState_NoHysteresis(state, occupied, temp) ==
    IF ~occupied THEN "OFF"
    ELSE IF temp >= CoolOnThreshold THEN "COOLING" ELSE "STANDBY"

\* A variant whose STANDBY branch compares with the lower threshold.
ACUpdateState_StandbyUsesLowThreshold(state, occupied, temp) ==
    IF ~occupied THEN "OFF"
    ELSE IF state = "OFF" THEN (IF temp >= CoolOnThreshold THEN "COOLING" ELSE "STANDBY")
    ELSE IF state = "STANDBY" THEN (IF temp >= CoolOffThreshold THEN "COOLING" ELSE state)
    ELSE IF state = "COOLING" THEN (IF temp < CoolOffThreshold THEN "STANDBY" ELSE state)
    ELSE state

\* A variant that switches a cooled-down room off instead of to STANDBY.
ACUpdateState_CoolingToOff(state, occupied, temp) ==
    IF ~occupied THEN "OFF"
    ELSE IF state = "OFF" THEN (IF temp >= CoolOnThreshold THEN "COOLING" ELSE "STANDBY")
    ELSE IF state = "STANDBY" THEN (IF temp >= CoolOnThreshold THEN "COOLING" ELSE state)
    ELSE IF state = "COOLING" THEN (IF temp < CoolOffThreshold THEN "OFF" ELSE state)
    ELSE state

\* A variant without the STANDBY branch: STANDBY is never left while occupied.
ACUpdateState_StandbyStuck(state, occupied, temp) ==
    IF ~occupied THEN "OFF"
    ELSE IF state = "OFF" THEN (IF temp >= CoolOnThreshold THEN "COOLING" ELSE "STANDBY")
    ELSE IF state = "COOLING" THEN (IF temp < CoolOffThreshold THEN "STANDBY" ELSE state)
    ELSE state

\* A variant with the two thresholds in each other's place.
ACUpdateState_SwappedThresholds(state, occupied, temp) ==
    IF ~occupied THEN "OFF"
    ELSE IF state = "OFF" THEN (IF temp >= CoolOffThreshold THEN "COOLING" ELSE "STANDBY")
    ELSE IF state = "STANDBY" THEN (IF temp >= CoolOffThreshold THEN "COOLING" ELSE state)
    ELSE IF state = "COOLING" THEN (IF temp < CoolOnThreshold THEN "STANDBY" ELSE state)
    ELSE state

\* A variant that starts cooling above the threshold only (`temp > 28`).
ACUpdateState_StrictOn(state, occupied, temp) ==
    IF ~occupied THEN "OFF"
    ELSE IF state = "OFF" THEN (IF temp > CoolOnThreshold THEN "COOLING" ELSE "STANDBY")
    ELSE IF state = "STANDBY" THEN (IF temp > CoolOnThreshold THEN "COOLING" ELSE state)
    ELSE IF state = "COOLING" THEN (IF temp < CoolOffThreshold THEN "STANDBY" ELSE state)
    ELSE state

\* A variant that stops cooling at the lower threshold itself (`temp <= 24`).
ACUpdateState_InclusiveOff(state, occupied, temp) ==
    IF ~occupied THEN "OFF"
    ELSE IF state = "OFF" THEN (IF temp >= CoolOnThreshold THEN "COOLING" ELSE "STANDBY")
    ELSE IF state = "STANDBY" THEN (IF temp >= CoolOnThreshold THEN "COOLING" ELSE state)
    ELSE IF state = "COOLING" THEN (IF temp <= CoolOffThreshold THEN "STANDBY" ELSE state)
    ELSE state

\* ACController.update_state: the stored state after the call, which is also
\* the value the call returns (`return self.state`).
ACUpdateState(state, occupied, temp) ==
    IF ~occupied THEN "OFF"
    ELSE IF state = "OFF" THEN (IF temp >= CoolOnThreshold THEN "COOLING" ELSE "STANDBY")
    ELSE IF state = "STANDBY" THEN (IF temp >= CoolOnThreshold THEN "COOLING" ELSE state)
    ELSE IF state = "COOLING" THEN (IF temp < CoolOffThreshold THEN "STANDBY" ELSE state)
    ELSE state

(* ---------------------------------------------------------------------- *)
(* LightController                                                         *)
(* ---------------------------------------------------------------------- *)

\* LightController.__init__: self.state = "OFF".
LightInit == "OFF"

\* A variant that keeps the light on, once on, for as long as the room is
\* occupied.
LightUpdateState_Sticky(state, occupied, light_level) ==
    IF occupied /\ (light_level < LightThreshold \/ state = "ON") THEN "ON" ELSE "OFF"

\* A variant that joins the two conditions with `or`.
LightUpdateState_OccupiedOrDark(state, occupied, light_level) ==
    IF occupied \/ light_level < LightThreshold THEN "ON" ELSE "OFF"

\* A variant that decides on the light level alone.
LightUpdateState_IgnoresOccupancy(state, occupied, light_level) ==
    IF light_level < LightThreshold THEN "ON" ELSE "OFF"

\* LightController.update_state: the stored state after the call, which is
\* also the value the call returns.  The stored state is written, never read.
LightUpdateState(state, occupied, light_level) ==
    IF occupied /\ light_level < LightThreshold THEN "ON" ELSE "OFF"

(* ---------------------------------------------------------------------- *)
(* RoomController                                                          *)
(* ---------------------------------------------------------------------- *)

VARIABLES
    room_name,              \* RoomController.room_name
    ac_state,               \* RoomController.ac.state
    lights_state,           \* RoomController.lights.state
    current_temp,           \* RoomController.current_temp
    is_occupied,            \* RoomController.is_occupied
    current_light_level,    \* RoomController.current_light_level
    manual_ac_override,     \* RoomController.manual_ac_override
    manual_light_override,  \* RoomController.manual_light_override
    received,               \* history: per room and kind, the latest well-formed reading's value
    nOps,                   \* history: operations performed on the room since construction
    last,                   \* history: the operation performed last
    calls,                  \* history: per room, the update_state calls made on its AC (kept by SpecAC)
    alone                   \* history: per room, the room had its own operations run alone (kept by SpecRooms)

vars == << room_name, ac_state, lights_state, current_temp, is_occupied,
           current_light_level, manual_ac_override, manual_light_override,
           received, nOps, last, calls, alone >>

\* dict.get(key): the value, or None when the key is absent.
Get(d, key) == IF key \in DOMAIN d THEN d[key] ELSE None

\* d[key] raises KeyError when the key is absent.
HasKey(d, key) == key \in DOMAIN d

\* The fields of room r that the FSMs and the sensors determine.
Snapshot(r) ==
    [ ac |-> ac_state[r], lights |-> lights_state[r], temp |-> current_temp[r],
      occupied |-> is_occupied[r], light_level |-> current_light_level[r],
      ac_override |-> manual_ac_override[r],
      light_override |-> manual_light_override[r] ]

\* A variant that reports the two states in each other's place.
LogStatus_Swapped(r, ac, lights) ==
    << room_name[r], current_temp[r], is_occupied[r], current_light_level[r], lights, ac >>

\* RoomController._log_status: the values the status line is built from.
LogStatus(r, ac, lights) ==
    << room_name[r], current_temp[r], is_occupied[r], current_light_level[r], ac, lights >>

NoReading == [sensor_type |-> None]

\* The record of an operation: its name, room and arguments, the room as it
\* was before it (pre), what it returned (ret), reported (out) or raised
\* (err).  The record of an evaluation also keeps the operation it follows
\* (prev).  evalBefore is, in the record of an update, what the evaluation
\* just before it reported and, in the record of an evaluation that follows
\* an update, what the evaluation just before that update reported; it is
\* << >> when there was no such evaluation.
NoOp ==
    [ op |-> "init", room |-> None, occupied |-> FALSE, temp |-> 0, light_level |-> 0,
      reading |-> NoReading, pre |-> << >>, ret |-> None, out |-> << >>,
      err |-> None, prev |-> [op |-> "init", room |-> None, reading |-> NoReading],
      evalBefore |-> << >> ]

\* The operation performed last, as the next operation's record keeps it.
Prev == [op |-> last.op, room |-> last.room, reading |-> last.reading]

Count(r) == [nOps EXCEPT ![r] = IF @ < MaxOps THEN @ + 1 ELSE @]

\* RoomController.__init__ for every room of the set S.
InitRooms(S) ==
    /\ room_name = [r \in S |-> r]
    /\ ac_state = [r \in S |-> ACInit]
    /\ lights_state = [r \in S |-> LightInit]
    /\ current_temp = [r \in S |-> DefaultTemp]
    /\ is_occupied = [r \in S |-> DefaultOccupied]
    /\ current_light_level = [r \in S |-> DefaultLightLevel]
    /\ manual_ac_override = [r \in S |-> None]
    /\ manual_light_override = [r \in S |-> None]
    /\ received = [r \in S |-> [temperature |-> << >>, pir |-> << >>, ldr |-> << >>]]
    /\ nOps = [r \in S |-> 0]
    /\ last = NoOp
    /\ calls = [r \in S |-> << >>]
    /\ alone = [r \in S |->
                  [ ac |-> ACInit, lights |-> LightInit, temp |-> DefaultTemp,
                    occupied |-> DefaultOccupied, light_level |-> DefaultLightLevel,
                    ac_override |-> None, light_override |-> None ]]

\* RoomController.__init__ for every room.
Init == InitRooms(Rooms)

\* A variant whose 'ldr' branch assigns the other field read from 'value'.
UpdateResult_SharedValueKey(r, sensor_data) ==
    LET stype == Get(sensor_data, "sensor_type")
        same  == [ temp |-> current_temp[r], occupied |-> is_occupied[r],
                   light_level |-> current_light_level[r],
                   ac |-> ac_state[r], lights |-> lights_state[r], err |-> None ]
    IN  IF stype = "temperature" \/ stype = "ldr" THEN
            IF HasKey(sensor_data, "value")
            THEN [same EXCEPT !.temp = sensor_data["value"]]
            ELSE [same EXCEPT !.err = "KeyError"]
        ELSE IF stype = "pir" THEN
            IF HasKey(sensor_data, "occupied")
            THEN [same EXCEPT !.occupied = sensor_data["occupied"]]
            ELSE [same EXCEPT !.err = "KeyError"]
        ELSE same

\* A variant whose last branch is a plain `else`, taken for every other tag.
UpdateResult_ElseIsLight(r, sensor_data) ==
    LET stype == Get(sensor_data, "sensor_type")
        same  == [ temp |-> current_temp[r], occupied |-> is_occupied[r],
                   light_level |-> current_light_level[r],
                   ac |-> ac_state[r], lights |-> lights_state[r], err |-> None ]
    IN  IF stype = "temperature" THEN
            IF HasKey(sensor_data, "value")
            THEN [same EXCEPT !.temp = sensor_data["value"]]
            ELSE [same EXCEPT !.err = "KeyError"]
        ELSE IF stype = "pir" THEN
            IF HasKey(sensor_data, "occupied")
            THEN [same EXCEPT !.occupied = sensor_data["occupied"]]
            ELSE [same EXCEPT !.err = "KeyError"]
        ELSE
            IF HasKey(sensor_data, "value")
            THEN [same EXCEPT !.light_level = sensor_data["value"]]
            ELSE [same EXCEPT !.err = "KeyError"]

\* A variant that drives both FSMs with the cached values after caching.
UpdateResult_DrivesFSMs(r, sensor_data) ==
    LET stype == Get(sensor_data, "sensor_type")
        same  == [ temp |-> current_temp[r], occupied |-> is_occupied[r],
                   light_level |-> current_light_level[r],
                   ac |-> ac_state[r], lights |-> lights_state[r], err |-> None ]
        cached ==
            IF stype = "temperature" THEN
                IF HasKey(sensor_data, "value")
                THEN [same EXCEPT !.temp = sensor_data["value"]]
                ELSE [same EXCEPT !.err = "KeyError"]
            ELSE IF stype = "pir" THEN
                IF HasKey(sensor_data, "occupied")
                THEN [same EXCEPT !.occupied = sensor_data["occupied"]]
                ELSE [same EXCEPT !.err = "KeyError"]
            ELSE IF stype = "ldr" THEN
                IF HasKey(sensor_data, "value")
                THEN [same EXCEPT !.light_level = sensor_data["value"]]
                ELSE [same EXCEPT !.err = "KeyError"]
            ELSE same
    IN  IF cached.err # None THEN cached
        ELSE [cached EXCEPT
                !.ac = ACUpdateState(ac_state[r], cached.occupied, cached.temp),
                !.lights = LightUpdateState(lights_state[r], cached.occupied,
                                            cached.light_level)]

\* A variant that tests for the payload field and skips a reading without it.
UpdateResult_IgnoresMissing(r, sensor_data) ==
    LET stype == Get(sensor_data, "sensor_type")
        same  == [ temp |-> current_temp[r], occupied |-> is_occupied[r],
                   light_level |-> current_light_level[r],
                   ac |-> ac_state[r], lights |-> lights_state[r], err |-> None ]
    IN  IF stype = "temperature" /\ HasKey(sensor_data, "value")
        THEN [same EXCEPT !.temp = sensor_data["value"]]
        ELSE IF stype = "pir" /\ HasKey(sensor_data, "occupied")
        THEN [same EXCEPT !.occupied = sensor_data["occupied"]]
        ELSE IF stype = "ldr" /\ HasKey(sensor_data, "value")
        THEN [same EXCEPT !.light_level = sensor_data["value"]]
        ELSE same

\* A variant whose first branch tests a tag the sensors never send.
UpdateResult_TagTypo(r, sensor_data) ==
    LET stype == Get(sensor_data, "sensor_type")
        same  == [ temp |-> current_temp[r], occupied |-> is_occupied[r],
                   light_level |-> current_light_level[r],
                   ac |-> ac_state[r], lights |-> lights_state[r], err |-> None ]
    IN  IF stype = "temp" THEN
            IF HasKey(sensor_data, "value")
            THEN [same EXCEPT !.temp = sensor_data["value"]]
            ELSE [same EXCEPT !.err = "KeyError"]
        ELSE IF stype = "pir" THEN
            IF HasKey(sensor_data, "occupied")
            THEN [same EXCEPT !.occupied = sensor_data["occupied"]]
            ELSE [same EXCEPT !.err = "KeyError"]
        ELSE IF stype = "ldr" THEN
            IF HasKey(sensor_data, "value")
            THEN [same EXCEPT !.light_level = sensor_data["value"]]
            ELSE [same EXCEPT !.err = "KeyError"]
        ELSE same

\* Room r after update(sensor_data): the cached values, the states of its two
\* FSMs, and err, which is "KeyError" when the payload subscript fails, and
\* then nothing has been assigned.
UpdateResult(r, sensor_data) ==
    LET stype == Get(sensor_data, "sensor_type")
        same  == [ temp |-> current_temp[r], occupied |-> is_occupied[r],
                   light_level |-> current_light_level[r],
                   ac |-> ac_state[r], lights |-> lights_state[r], err |-> None ]
    IN  IF stype = "temperature" THEN
            IF HasKey(sensor_data, "value")
            THEN [same EXCEPT !.temp = sensor_data["value"]]
            ELSE [same EXCEPT !.err = "KeyError"]
        ELSE IF stype = "pir" THEN
            IF HasKey(sensor_data, "occupied")
            THEN [same EXCEPT !.occupied = sensor_data["occupied"]]
            ELSE [same EXCEPT !.err = "KeyError"]
        ELSE IF stype = "ldr" THEN
            IF HasKey(sensor_data, "value")
            THEN [same EXCEPT !.light_level = sensor_data["value"]]
            ELSE [same EXCEPT !.err = "KeyError"]
        ELSE same

\* A variant of update whose cached values are attributes of the class,
\* shared by every instance.
Update_SharedCache(r, sensor_data) ==
    LET res == UpdateResult(r, sensor_data)
        stype == Get(sensor_data, "sensor_type")
        stored == res.err = None
    IN
    /\ current_temp' = IF stored /\ stype = "temperature"
                       THEN [x \in DOMAIN current_temp |-> res.temp]
                       ELSE current_temp
    /\ is_occupied' = IF stored /\ stype = "pir"
                      THEN [x \in DOMAIN is_occupied |-> res.occupied]
                      ELSE is_occupied
    /\ current_light_level' = IF stored /\ stype = "ldr"
                              THEN [x \in DOMAIN current_light_level |-> res.light_level]
                              ELSE current_light_level
    /\ received' = IF sensor_data \in WellFormedReadings
                   THEN [received EXCEPT ![r][sensor_data.sensor_type] =
                            << IF sensor_data.sensor_type = "pir"
                               THEN sensor_data.occupied ELSE sensor_data.value >>]
                   ELSE received
    /\ nOps' = Count(r)
    /\ ac_state' = [ac_state EXCEPT ![r] = res.ac]
    /\ lights_state' = [lights_state EXCEPT ![r] = res.lights]
    /\ last' = [ NoOp EXCEPT !.op = "update", !.room = r, !.reading = sensor_data,
                            !.pre = Snapshot(r), !.err = res.err,
                            !.evalBefore = IF last.op = "evaluate" /\ last.room = r
                                           THEN last.out ELSE << >> ]
    /\ UNCHANGED << room_name, manual_ac_override, manual_light_override >>

\* A variant of update in which a fresh reading cancels the manual overrides.
Update_ClearsOverrides(r, sensor_data) ==
    LET res == UpdateResult(r, sensor_data) IN
    /\ current_temp' = [current_temp EXCEPT ![r] = res.temp]
    /\ is_occupied' = [is_occupied EXCEPT ![r] = res.occupied]
    /\ current_light_level' = [current_light_level EXCEPT ![r] = res.light_level]
    /\ received' = IF sensor_data \in WellFormedReadings
                   THEN [received EXCEPT ![r][sensor_data.sensor_type] =
                            << IF sensor_data.sensor_type = "pir"
                               THEN sensor_data.occupied ELSE sensor_data.value >>]
                   ELSE received
    /\ nOps' = Count(r)
    /\ ac_state' = [ac_state EXCEPT ![r] = res.ac]
    /\ lights_state' = [lights_state EXCEPT ![r] = res.lights]
    /\ last' = [ NoOp EXCEPT !.op = "update", !.room = r, !.reading = sensor_data,
                            !.pre = Snapshot(r), !.err = res.err,
                            !.evalBefore = IF last.op = "evaluate" /\ last.room = r
                                           THEN last.out ELSE << >> ]
    /\ manual_ac_override' = IF res.err = None
                             THEN [manual_ac_override EXCEPT ![r] = None]
                             ELSE manual_ac_override
    /\ manual_light_override' = IF res.err = None
                                THEN [manual_light_override EXCEPT ![r] = None]
                                ELSE manual_light_override
    /\ UNCHANGED room_name

\* RoomController.update(sensor_data) on room r.
Update(r, sensor_data) ==
    LET res == UpdateResult(r, sensor_data) IN
    /\ current_temp' = [current_temp EXCEPT ![r] = res.temp]
    /\ is_occupied' = [is_occupied EXCEPT ![r] = res.occupied]
    /\ current_light_level' = [current_light_level EXCEPT ![r] = res.light_level]
    /\ received' = IF sensor_data \in WellFormedReadings
                   THEN [received EXCEPT ![r][sensor_data.sensor_type] =
                            << IF sensor_data.sensor_type = "pir"
                               THEN sensor_data.occupied ELSE sensor_data.value >>]
                   ELSE received
    /\ nOps' = Count(r)
    /\ ac_state' = [ac_state EXCEPT ![r] = res.ac]
    /\ lights_state' = [lights_state EXCEPT ![r] = res.lights]
    /\ last' = [ NoOp EXCEPT !.op = "update", !.room = r, !.reading = sensor_data,
                            !.pre = Snapshot(r), !.err = res.err,
                            !.evalBefore = IF last.op = "evaluate" /\ last.room = r
                                           THEN last.out ELSE << >> ]
    /\ UNCHANGED << room_name, manual_ac_override, manual_light_override >>

\* A direct call room.ac.update_state(occupied, temp).
ACCall(r, occupied, temp) ==
    LET new == ACUpdateState(ac_state[r], occupied, temp) IN
    /\ ac_state' = [ac_state EXCEPT ![r] = new]
    /\ nOps' = Count(r)
    /\ last' = [ NoOp EXCEPT !.op = "ac.update_state", !.room = r, !.occupied = occupied,
                            !.temp = temp, !.pre = Snapshot(r), !.ret = new ]
    /\ UNCHANGED << room_name, lights_state, current_temp, is_occupied,
                    current_light_level, manual_ac_override, manual_light_override,
                    received >>

\* A direct call room.lights.update_state(occupied, light_level).
LightCall(r, occupied, light_level) ==
    LET new == LightUpdateState(lights_state[r], occupied, light_level) IN
    /\ lights_state' = [lights_state EXCEPT ![r] = new]
    /\ nOps' = Count(r)
    /\ last' = [ NoOp EXCEPT !.op = "lights.update_state", !.room = r,
                            !.occupied = occupied, !.light_level = light_level,
                            !.pre = Snapshot(r), !.ret = new ]
    /\ UNCHANGED << room_name, ac_state, current_temp, is_occupied,
                    current_light_level, manual_ac_override, manual_light_override,
                    received >>

\* The evaluation step of room r: both FSMs are driven with the cached
\* values and the two results are reported with the room's name and the
\* cached values.
Evaluate(r) ==
    LET new_ac == ACUpdateState(ac_state[r], is_occupied[r], current_temp[r])
        new_lights == LightUpdateState(lights_state[r], is_occupied[r],
                                       current_light_level[r])
    IN
    /\ ac_state' = [ac_state EXCEPT ![r] = new_ac]
    /\ lights_state' = [lights_state EXCEPT ![r] = new_lights]
    /\ nOps' = Count(r)
    /\ last' = [ NoOp EXCEPT !.op = "evaluate", !.room = r,
                            !.occupied = is_occupied[r], !.temp = current_temp[r],
                            !.light_level = current_light_level[r],
                            !.pre = Snapshot(r),
                            !.out = LogStatus(r, new_ac, new_lights),
                            !.prev = Prev,
                            !.evalBefore = IF last.op = "update" /\ last.room = r
                                           THEN last.evalBefore ELSE << >> ]
    /\ UNCHANGED << room_name, current_temp, is_occupied, current_light_level,
                    manual_ac_override, manual_light_override, received >>

Next ==
    \/ \E r \in Rooms, sensor_data \in Readings :
          Update(r, sensor_data) /\ UNCHANGED << calls, alone >>
    \/ \E r \in Rooms, occupied \in BOOLEAN, temp \in TempInputs :
          ACCall(r, occupied, temp) /\ UNCHANGED << calls, alone >>
    \/ \E r \in Rooms, occupied \in BOOLEAN, light_level \in LightInputs :
          LightCall(r, occupied, light_level) /\ UNCHANGED << calls, alone >>
    \/ \E r \in Rooms : Evaluate(r) /\ UNCHANGED << calls, alone >>

Spec == Init /\ [][Next]_vars

(* ---------------------------------------------------------------------- *)
(* A fresh ACController driven by a sequence of calls                      *)
(* ---------------------------------------------------------------------- *)

\* update_state on the AC of room r, the call being added to the room's
\* sequence of calls with the state it found and the state it returned.
ACSeqCall(r, occupied, temp) ==
    /\ Len(calls[r]) < MaxCalls
    /\ ACCall(r, occupied, temp)
    /\ calls' = [calls EXCEPT ![r] =
                    Append(@, [ occupied |-> occupied, temp |-> temp,
                                pre |-> ac_state[r], ret |-> ac_state'[r] ])]
    /\ UNCHANGED alone

NextAC ==
    \E r \in Rooms, occupied \in BOOLEAN, temp \in SeqTemps : ACSeqCall(r, occupied, temp)

\* Sequences of at most MaxCalls calls of update_state on the AC of a room
\* just constructed.
SpecAC == Init /\ [][NextAC]_vars

TypeOK ==
    /\ \A r \in Rooms :
        /\ ac_state[r] \in ACStates
        /\ lights_state[r] \in LightStates
        /\ current_temp[r] \in TempInputs \cup {DefaultTemp}
        /\ is_occupied[r] \in BOOLEAN
        /\ current_light_level[r] \in LightInputs \cup {DefaultLightLevel}
        /\ nOps[r] \in 0..MaxOps
    /\ last.op \in {"init", "update", "ac.update_state", "lights.update_state", "evaluate"}

(* ---------------------------------------------------------------------- *)
(* Manual overrides                                                        *)
(* ---------------------------------------------------------------------- *)

\* The values a caller stores in manual_ac_override.
ACOverrides == {None, "COOLING"}

\* The values a caller stores in manual_light_override.
LightOverrides == {None, "ON"}

\* A caller stores values in the two override fields of room r.
SetOverride(r, ac, lights) ==
    /\ manual_ac_override' = [manual_ac_override EXCEPT ![r] = ac]
    /\ manual_light_override' = [manual_light_override EXCEPT ![r] = lights]
    /\ last' = [ NoOp EXCEPT !.op = "set_override", !.room = r, !.pre = Snapshot(r) ]
    /\ UNCHANGED << room_name, ac_state, lights_state, current_temp, is_occupied,
                    current_light_level, received, nOps, calls, alone >>

NextOverrides ==
    \/ Next
    \/ \E r \in Rooms, ac \in ACOverrides, lights \in LightOverrides :
          SetOverride(r, ac, lights)

\* The operations of a room, with a caller that stores manual overrides.
SpecOverrides == Init /\ [][NextOverrides]_vars

(* ---------------------------------------------------------------------- *)
(* Two rooms                                                               *)
(* ---------------------------------------------------------------------- *)

\* Two RoomController instances.
TwoRooms == {"Living Room", "Bedroom"}

\* The readings delivered to the two rooms.
TwoRoomsReadings ==
    { [sensor_type |-> "temperature", value |-> 300],
      [sensor_type |-> "temperature", value |-> 239],
      [sensor_type |-> "pir", occupied |-> TRUE],
      [sensor_type |-> "pir", occupied |-> FALSE],
      [sensor_type |-> "ldr", value |-> 50] }

\* update(sensor_data) on a room that is in state s and shares nothing: the
\* state it is in afterwards.
AloneUpdate(s, sensor_data) ==
    LET stype == Get(sensor_data, "sensor_type") IN
    IF stype = "temperature" /\ HasKey(sensor_data, "value")
    THEN [s EXCEPT !.temp = sensor_data["value"]]
    ELSE IF stype = "pir" /\ HasKey(sensor_data, "occupied")
    THEN [s EXCEPT !.occupied = sensor_data["occupied"]]
    ELSE IF stype = "ldr" /\ HasKey(sensor_data, "value")
    THEN [s EXCEPT !.light_level = sensor_data["value"]]
    ELSE s

\* The evaluation step on a room that is in state s and shares nothing.
AloneEvaluate(s) ==
    [s EXCEPT !.ac = ACUpdateState(s.ac, s.occupied, s.temp),
              !.lights = LightUpdateState(s.lights, s.occupied, s.light_level)]

InitTwoRooms == InitRooms(TwoRooms)

NextTwoRooms ==
    \/ \E r \in TwoRooms, sensor_data \in TwoRoomsReadings :
          /\ Update(r, sensor_data)
          /\ alone' = [alone EXCEPT ![r] = AloneUpdate(@, sensor_data)]
          /\ UNCHANGED calls
    \/ \E r \in TwoRooms :
          /\ Evaluate(r)
          /\ alone' = [alone EXCEPT ![r] = AloneEvaluate(@)]
          /\ UNCHANGED calls

\* Every interleaving of the updates and evaluations of two rooms.
SpecTwoRooms == InitTwoRooms /\ [][NextTwoRooms]_vars

(* ---------------------------------------------------------------------- *)
(* Properties of ACController and LightController                          *)
(* ---------------------------------------------------------------------- *)

\* C1: a call of ACController.update_state with occupied = false, whatever
\* the stored state (OFF, STANDBY, COOLING) and the temperature, leaves the
\* stored state OFF and returns OFF.
C1_UnoccupiedTurnsOff ==
    (last.op = "ac.update_state" /\ ~last.occupied) =>
        (last.ret = "OFF" /\ ac_state[last.room] = "OFF")

\* The case of C1 furthest from OFF: cooling, at a temperature that
\* keeps an occupied room cooling.
C1_Witness ==
    /\ last.op = "ac.update_state"
    /\ ~last.occupied
    /\ last.pre.ac = "COOLING"
    /\ last.temp >= 280
    /\ ac_state[last.room] = "OFF"

C3_CoolingHysteresis ==
    (last.op = "ac.update_state" /\ last.occupied /\ last.pre.ac = "COOLING") =>
        /\ (last.temp >= 240) => (last.ret = "COOLING")
        /\ (last.ret = "STANDBY") <=> (last.temp < 240)
        /\ ac_state[last.room] = last.ret

\* The boundary of C3: exactly 24.0 keeps cooling.
C3_Witness ==
    /\ last.op = "ac.update_state"
    /\ last.occupied
    /\ last.pre.ac = "COOLING"
    /\ last.temp = 240
    /\ last.ret = "COOLING"

\* C4: LightController.update_state returns ON if and only if occupied is
\* true and light_level < 300, whatever the stored light state and the calls
\* made before; the result is the one a fresh instance gives for the same
\* call, and it is the state stored afterwards.
C4_LightIsMemoryless ==
    (last.op = "lights.update_state") =>
        /\ (last.ret = "ON") <=> (last.occupied /\ last.light_level < 300)
        /\ last.ret \in LightStates
        /\ last.ret = LightUpdateState(LightInit, last.occupied, last.light_level)
        /\ lights_state[last.room] = last.ret

\* The boundary of C4 on a light that is on: 300 with occupied = true
\* turns it off.
C4_Witness ==
    /\ last.op = "lights.update_state"
    /\ last.pre.lights = "ON"
    /\ last.occupied
    /\ last.light_level = 300
    /\ last.ret = "OFF"

(* ---------------------------------------------------------------------- *)
(* Properties of RoomController                                            *)
(* ---------------------------------------------------------------------- *)

\* C5: update with a well-formed reading overwrites the cached value of the
\* reading's kind and leaves the other two as they were; so each cached
\* value is the value of the latest reading of its kind, or the default
\* (20.0, false, 500) when no reading of that kind was delivered.
C5_UpdateOverwritesItsKind ==
    /\ (last.op = "update" /\ last.reading \in WellFormedReadings) =>
          LET r == last.room
              d == last.reading
              p == last.pre
          IN  /\ last.err = None
              /\ (d.sensor_type = "temperature") =>
                    /\ current_temp[r] = d.value
                    /\ is_occupied[r] = p.occupied
                    /\ current_light_level[r] = p.light_level
              /\ (d.sensor_type = "pir") =>
                    /\ is_occupied[r] = d.occupied
                    /\ current_temp[r] = p.temp
                    /\ current_light_level[r] = p.light_level
              /\ (d.sensor_type = "ldr") =>
                    /\ current_light_level[r] = d.value
                    /\ current_temp[r] = p.temp
                    /\ is_occupied[r] = p.occupied
    /\ \A r \in Rooms :
          /\ current_temp[r] = IF received[r].temperature = << >>
                               THEN 200 ELSE received[r].temperature[1]
          /\ is_occupied[r] = IF received[r].pir = << >>
                              THEN FALSE ELSE received[r].pir[1]
          /\ current_light_level[r] = IF received[r].ldr = << >>
                                      THEN 500 ELSE received[r].ldr[1]

\* A light-level reading arrives at a room whose other two cached values are
\* no longer the defaults.
C5_Witness ==
    /\ last.op = "update"
    /\ last.reading = [sensor_type |-> "ldr", value |-> 50]
    /\ last.pre.temp = 290
    /\ last.pre.occupied
    /\ last.pre.light_level = 300
    /\ current_light_level[last.room] = 50
    /\ current_temp[last.room] = 290

\* C6: update with a reading whose sensor_type is none of temperature, pir,
\* ldr, or that has no sensor_type, raises nothing and leaves the three
\* cached values as they were; an evaluation right after it reports the
\* tuple that the evaluation right before it reported.
C6_UnknownTagIgnored ==
    /\ (last.op = "update"
            /\ Get(last.reading, "sensor_type") \notin {"temperature", "pir", "ldr"}) =>
          /\ last.err = None
          /\ current_temp[last.room] = last.pre.temp
          /\ is_occupied[last.room] = last.pre.occupied
          /\ current_light_level[last.room] = last.pre.light_level
    /\ (last.op = "evaluate" /\ last.prev.op = "update" /\ last.prev.room = last.room
            /\ Get(last.prev.reading, "sensor_type") \notin {"temperature", "pir", "ldr"}
            /\ last.evalBefore # << >>) =>
          last.out = last.evalBefore

\* Evaluation, a reading without a tag whose value a known tag would have
\* cached, evaluation again: the room is cooling with the light on.
C6_Witness ==
    /\ last.op = "evaluate"
    /\ last.prev.op = "update"
    /\ last.prev.reading = [value |-> 50]
    /\ last.evalBefore # << >>
    /\ last.out = last.evalBefore
    /\ last.out[4] = 100
    /\ last.out[5] = "COOLING"
    /\ last.out[6] = "ON"

\* C7: the evaluation step drives ac.update_state with (is_occupied,
\* current_temp) and lights.update_state with (is_occupied,
\* current_light_level); afterwards the stored AC and light states are the
\* FSM results for the cached values, the cached values are untouched, and
\* the report is (room_name, current_temp, is_occupied, current_light_level,
\* ac_state, light_state).
C7_EvaluationDrivesBothFSMs ==
    (last.op = "evaluate") =>
        LET r == last.room
            p == last.pre
            ac == IF ~p.occupied THEN "OFF"
                  ELSE IF p.temp >= 280 THEN "COOLING"
                  ELSE IF p.temp < 240 THEN "STANDBY"
                  ELSE IF p.ac = "COOLING" THEN "COOLING" ELSE "STANDBY"
            li == IF p.occupied /\ p.light_level < 300 THEN "ON" ELSE "OFF"
        IN  /\ ac_state[r] = ac
            /\ lights_state[r] = li
            /\ current_temp[r] = p.temp
            /\ is_occupied[r] = p.occupied
            /\ current_light_level[r] = p.light_level
            /\ last.out = << r, current_temp[r], is_occupied[r],
                             current_light_level[r], ac_state[r], lights_state[r] >>

\* An evaluation that changes both FSMs: inside the band the AC goes from
\* OFF to STANDBY, and the light comes on.
C7_Witness ==
    /\ last.op = "evaluate"
    /\ last.pre.ac = "OFF"
    /\ last.pre.lights = "OFF"
    /\ last.pre.temp = 260
    /\ ac_state[last.room] = "STANDBY"
    /\ lights_state[last.room] = "ON"
    /\ last.out = << "Living Room", 260, TRUE, 299, "STANDBY", "ON" >>

\* C8: update, whatever the reading, leaves the stored states of the room's
\* ACController and LightController as they were.
C8_UpdateLeavesFSMsAlone ==
    (last.op = "update") =>
        /\ ac_state[last.room] = last.pre.ac
        /\ lights_state[last.room] = last.pre.lights

\* An occupancy reading arrives at a hot, dark room whose FSMs are both OFF:
\* driving them now would change both.
C8_Witness ==
    /\ last.op = "update"
    /\ last.reading = [sensor_type |-> "pir", occupied |-> TRUE]
    /\ current_temp[last.room] = 300
    /\ current_light_level[last.room] = 50
    /\ ac_state[last.room] = "OFF"
    /\ lights_state[last.room] = "OFF"

\* C9: an evaluation that follows the delivery of an Occupancy(false)
\* reading, whatever the cached temperature and light level and the states
\* of the two FSMs, leaves and reports AC = OFF and Light = OFF.
C9_VacatedRoomSwitchesOff ==
    (last.op = "evaluate" /\ last.prev.op = "update" /\ last.prev.room = last.room
        /\ last.prev.reading = [sensor_type |-> "pir", occupied |-> FALSE]) =>
        /\ ac_state[last.room] = "OFF"
        /\ lights_state[last.room] = "OFF"
        /\ last.out[5] = "OFF"
        /\ last.out[6] = "OFF"

\* The room was cooling with the light on, hot and dark, when it was vacated.
C9_Witness ==
    /\ last.op = "evaluate"
    /\ last.prev.op = "update"
    /\ last.prev.reading = [sensor_type |-> "pir", occupied |-> FALSE]
    /\ last.pre.ac = "COOLING"
    /\ last.pre.lights = "ON"
    /\ last.pre.temp = 300
    /\ last.pre.light_level = 50
    /\ ac_state[last.room] = "OFF"
    /\ lights_state[last.room] = "OFF"

\* The readings of the scenario of C10, as the latest reading of each kind.
ScenarioReceived ==
    [temperature |-> << 290 >>, pir |-> << TRUE >>, ldr |-> << 50 >>]

\* C10: a room that since its construction has received exactly
\* Occupancy(true), Temperature(29.0) and LightLevel(50), in any order, and
\* is then evaluated reports AC = COOLING and Light = ON.  (Three operations
\* that left a reading of each kind are three updates, one of each kind.)
C10_ScenarioCoolsAndLights ==
    \A r \in Rooms :
        (last.op = "evaluate" /\ last.room = r
            /\ nOps[r] = Cardinality(DOMAIN ScenarioReceived) + 1
            /\ received[r] = ScenarioReceived) =>
            /\ last.out[5] = "COOLING"
            /\ last.out[6] = "ON"
            /\ ac_state[r] = "COOLING"
            /\ lights_state[r] = "ON"

\* The scenario in an order other than the listed one: the occupancy
\* reading is delivered last.
C10_Witness ==
    /\ last.op = "evaluate"
    /\ nOps[last.room] = Cardinality(DOMAIN ScenarioReceived) + 1
    /\ received[last.room] = ScenarioReceived
    /\ last.prev.reading = [sensor_type |-> "pir", occupied |-> TRUE]
    /\ last.pre.ac = "OFF"
    /\ last.out = << "Living Room", 290, TRUE, 50, "COOLING", "ON" >>

(* ---------------------------------------------------------------------- *)
(* Properties of sequences of calls                                        *)
(* ---------------------------------------------------------------------- *)

\* The calls of C11 and what they return.
HysteresisTemps == << 300, 260, 241, 239 >>

HysteresisStates == << "COOLING", "COOLING", "COOLING", "STANDBY" >>

\* C11: on a fresh ACController, successive update_state calls with
\* occupied = true and temp = 30, 26, 24.1, 23.9 return COOLING, COOLING,
\* COOLING, STANDBY in that order (stated for every prefix of the sequence).
C11_HysteresisSequence ==
    \A r \in Rooms :
        \A n \in 1..Len(HysteresisTemps) :
            (/\ Len(calls[r]) = n
             /\ \A i \in 1..n : calls[r][i].occupied /\ calls[r][i].temp = HysteresisTemps[i])
            => (\A i \in 1..n : calls[r][i].ret = HysteresisStates[i])

\* All four calls of C11 have been made.
C11_Witness ==
    \E r \in Rooms :
        /\ Len(calls[r]) = 4
        /\ \A i \in 1..4 : calls[r][i].occupied /\ calls[r][i].temp = HysteresisTemps[i]
        /\ calls[r][1].pre = "OFF"
        /\ ac_state[r] = "STANDBY"

\* C12: update with a recognised sensor_type whose payload field is missing
\* ('value' for temperature and ldr, 'occupied' for pir) fails with an error
\* and leaves the three cached values and both FSM states as they were.
C12_MissingFieldRaises ==
    (/\ last.op = "update"
     /\ Get(last.reading, "sensor_type") \in {"temperature", "pir", "ldr"}
     /\ ~HasKey(last.reading,
                IF last.reading.sensor_type = "pir" THEN "occupied" ELSE "value")) =>
        /\ last.err # None
        /\ current_temp[last.room] = last.pre.temp
        /\ is_occupied[last.room] = last.pre.occupied
        /\ current_light_level[last.room] = last.pre.light_level
        /\ ac_state[last.room] = last.pre.ac
        /\ lights_state[last.room] = last.pre.lights

\* A temperature reading without its value arrives at a room that is cooling
\* with the light on.
C12_Witness ==
    /\ last.op = "update"
    /\ last.reading = [sensor_type |-> "temperature"]
    /\ last.err = "KeyError"
    /\ last.pre.temp = 290
    /\ last.pre.ac = "COOLING"
    /\ last.pre.lights = "ON"
    /\ current_temp[last.room] = 290

\* C13: every update_state call that returns COOLING was made with
\* occupied = true and either temp >= 28.0 or a stored state that was COOLING
\* already with temp >= 24.0; and once a call has returned COOLING, every call
\* after it returns COOLING as long as no call in between has temp < 24.0 or
\* occupied = false.
C13_CoolingOnlyWhenOccupied ==
    \A r \in Rooms :
        /\ \A i \in 1..Len(calls[r]) :
              (calls[r][i].ret = "COOLING") =>
                  /\ calls[r][i].occupied
                  /\ \/ calls[r][i].temp >= 280
                     \/ (calls[r][i].pre = "COOLING" /\ calls[r][i].temp >= 240)
        /\ \A i \in 1..Len(calls[r]) : \A j \in i..Len(calls[r]) :
              (/\ calls[r][i].ret = "COOLING"
               /\ \A k \in (i+1)..j : calls[r][k].occupied /\ calls[r][k].temp >= 240)
              => (calls[r][j].ret = "COOLING")

\* Cooling starts, is kept by two calls inside the band (24.0 being one of
\* them), and ends with the occupancy.
C13_Witness ==
    \E r \in Rooms :
        /\ Len(calls[r]) = 4
        /\ calls[r][1].ret = "COOLING"
        /\ calls[r][2].occupied /\ calls[r][2].temp = 260 /\ calls[r][2].ret = "COOLING"
        /\ calls[r][3].occupied /\ calls[r][3].temp = 240 /\ calls[r][3].ret = "COOLING"
        /\ ~calls[r][4].occupied /\ calls[r][4].ret = "OFF"

\* C14: a call of update_state with occupied = true never returns OFF,
\* whatever the stored state and the temperature: the result is STANDBY or
\* COOLING, and it is the state stored.
C14_OccupiedNeverOff ==
    (last.op = "ac.update_state" /\ last.occupied) =>
        /\ last.ret \in {"STANDBY", "COOLING"}
        /\ ac_state[last.room] = last.ret

\* The transition that leaves COOLING while occupied: it goes to STANDBY.
C14_Witness ==
    /\ last.op = "ac.update_state"
    /\ last.occupied
    /\ last.pre.ac = "COOLING"
    /\ last.temp = 239
    /\ last.ret = "STANDBY"

\* Call i of room r changed the AC state between STANDBY and COOLING.
Switched(r, i) ==
    /\ calls[r][i].pre # calls[r][i].ret
    /\ {calls[r][i].pre, calls[r][i].ret} = {"STANDBY", "COOLING"}

\* C17: over a sequence of update_state calls with occupied = true, two
\* consecutive changes of the AC state between STANDBY and COOLING take one
\* call with temp >= 28.0 and another with temp < 24.0; and when every temp
\* of the sequence lies in [24.0, 28.0), the state changes on the first call
\* only (OFF -> STANDBY) and never afterwards.
C17_NoOscillationInBand ==
    \A r \in Rooms :
        (\A k \in 1..Len(calls[r]) : calls[r][k].occupied) =>
            /\ \A i \in 1..Len(calls[r]) : \A j \in (i+1)..Len(calls[r]) :
                  (/\ Switched(r, i)
                   /\ Switched(r, j)
                   /\ \A k \in (i+1)..(j-1) : ~Switched(r, k))
                  => \/ (calls[r][i].temp >= 280 /\ calls[r][j].temp < 240)
                     \/ (calls[r][i].temp < 240 /\ calls[r][j].temp >= 280)
            /\ (\A k \in 1..Len(calls[r]) :
                    calls[r][k].temp >= 240 /\ calls[r][k].temp < 280)
               => \A k \in 1..Len(calls[r]) :
                    /\ calls[r][k].ret = "STANDBY"
                    /\ (k > 1) => (calls[r][k].pre = calls[r][k].ret)

\* Cooling starts at 30, survives 26, stops at 23.9 and starts again at 28:
\* two pairs of consecutive changes.
C17_Witness ==
    \E r \in Rooms :
        /\ Len(calls[r]) = 4
        /\ \A k \in 1..4 : calls[r][k].occupied
        /\ calls[r][1].temp = 300 /\ calls[r][1].ret = "COOLING"
        /\ calls[r][2].temp = 260 /\ calls[r][2].ret = "COOLING"
        /\ calls[r][3].temp = 239 /\ calls[r][3].ret = "STANDBY"
        /\ calls[r][4].temp = 280 /\ calls[r][4].ret = "COOLING"
        /\ Switched(r, 3)
        /\ Switched(r, 4)

(* ---------------------------------------------------------------------- *)
(* Properties of two rooms                                                 *)
(* ---------------------------------------------------------------------- *)

\* C15: two RoomController instances own disjoint state: after every
\* interleaving of the updates and evaluations of two rooms, each room is in
\* the state that its own operations, run alone in their order, leave it in
\* (so no operation on one room changes the other room).
C15_RoomsAreIndependent ==
    \A r \in DOMAIN alone :
        /\ ac_state[r] = alone[r].ac
        /\ lights_state[r] = alone[r].lights
        /\ current_temp[r] = alone[r].temp
        /\ is_occupied[r] = alone[r].occupied
        /\ current_light_level[r] = alone[r].light_level
        /\ manual_ac_override[r] = alone[r].ac_override
        /\ manual_light_override[r] = alone[r].light_override

\* The two rooms have been driven to different states by interleaved
\* operations: the evaluation of one follows an update of the other.
C15_Witness ==
    /\ DOMAIN alone = TwoRooms
    /\ last.op = "evaluate"
    /\ last.room = "Bedroom"
    /\ last.prev.op = "update"
    /\ last.prev.room = "Living Room"
    /\ ac_state["Living Room"] = "COOLING"
    /\ lights_state["Living Room"] = "ON"
    /\ is_occupied["Living Room"] = FALSE
    /\ ac_state["Bedroom"] = "STANDBY"
    /\ lights_state["Bedroom"] = "OFF"
    /\ current_temp["Bedroom"] = 239
    /\ nOps["Living Room"] >= 3
    /\ nOps["Bedroom"] >= 3

(* ---------------------------------------------------------------------- *)
(* Properties of the manual overrides                                      *)
(* ---------------------------------------------------------------------- *)

C18_StandbyMeansOccupiedBelow28 ==
    (last.op = "ac.update_state" /\ last.ret = "STANDBY") =>
        (last.occupied /\ last.temp < 280)

\* STANDBY is kept by a call just below 28.
C18_Witness ==
    /\ last.op = "ac.update_state"
    /\ last.pre.ac = "STANDBY"
    /\ last.ret = "STANDBY"
    /\ last.occupied
    /\ last.temp = 279

\* C19: a call of ACController.update_state that repeats the inputs of the
\* call just before it returns what that call returned; so does a repeated
\* call of LightController.update_state; and an evaluation that follows an
\* evaluation of the same room with no update in between reports the same
\* tuple.
C19_RepeatedCallIsIdempotent ==
    [][ /\ (/\ last.op = "ac.update_state" /\ last'.op = "ac.update_state"
            /\ last'.room = last.room
            /\ last'.occupied = last.occupied /\ last'.temp = last.temp)
           => (last'.ret = last.ret /\ ac_state' = ac_state)
        /\ (/\ last.op = "lights.update_state" /\ last'.op = "lights.update_state"
            /\ last'.room = last.room
            /\ last'.occupied = last.occupied /\ last'.light_level = last.light_level)
           => (last'.ret = last.ret /\ lights_state' = lights_state)
        /\ (/\ last.op = "evaluate" /\ last'.op = "evaluate" /\ last'.room = last.room)
           => (/\ last'.out = last.out
               /\ ac_state' = ac_state
               /\ lights_state' = lights_state)
      ]_vars

\* A second evaluation in a row, of an occupied room that has been cooling
\* inside the band with the light on.
C19_Witness ==
    /\ last.op = "evaluate"
    /\ last.prev.op = "evaluate"
    /\ last.prev.room = last.room
    /\ last.pre.ac = "COOLING"
    /\ last.pre.temp = 260
    /\ last.pre.occupied
    /\ last.out[5] = "COOLING"
    /\ last.out[6] = "ON"

\* C20: after an evaluation, which drives both FSMs with the same cached
\* occupancy, Light = ON implies that the AC is STANDBY or COOLING, and
\* AC = OFF implies Light = OFF, whatever the cached temperature and light
\* level and the states the FSMs were in.
C20_EvaluationIsConsistent ==
    (last.op = "evaluate") =>
        /\ (lights_state[last.room] = "ON") => (ac_state[last.room] \in {"STANDBY", "COOLING"})
        /\ (ac_state[last.room] = "OFF") => (lights_state[last.room] = "OFF")
        /\ (last.out[6] = "ON") => (last.out[5] \in {"STANDBY", "COOLING"})
        /\ (last.out[5] = "OFF") => (last.out[6] = "OFF")

\* An evaluation that turns the light on while the AC falls back from
\* COOLING to STANDBY.
C20_Witness ==
    /\ last.op = "evaluate"
    /\ last.pre.ac = "COOLING"
    /\ last.pre.lights = "OFF"
    /\ last.pre.temp = 239
    /\ ac_state[last.room] = "STANDBY"
    /\ lights_state[last.room] = "ON"

====
